---- MODULE Spec2Model ----
(***************************************************************************)
(* A model of src/src/openslide-decode-tifflike.c: the TIFF / BigTIFF      *)
(* directory parser (_openslide_tifflike_create, read_directory,           *)
(* read_tiff_value), the typed accessors and the quickhash of one level.   *)
(*                                                                         *)
(* Numbers read from the file are kept as numerals: sequences of bytes,    *)
(* most significant byte first.  A uint64_t / int64_t is a numeral of 8    *)
(* bytes, so that the 64-bit wrap-around and the sign bit are exact.       *)
(***************************************************************************)
EXTENDS Integers, Sequences, FiniteSets, TLC

VARIABLES
  inp,            \* description of the input file the bytes were written from
  file,           \* the bytes of the FILE *f
  pos,            \* the file position of f
  pc,             \* position inside _openslide_tifflike_create / read_directory
  big_endian,     \* _openslide_tifflike_create: bool big_endian
  bigtiff,        \* _openslide_tifflike_create: bool bigtiff
  diroff,         \* _openslide_tifflike_create: int64_t diroff
  loop_detector,  \* the set of directory offsets already visited
  directories,    \* tl->directories, a sequence of hash tables
  off,            \* read_directory: int64_t off
  dircount,       \* read_directory: uint64_t dircount
  n,              \* read_directory: loop counter n
  ht,             \* read_directory: the table being filled (result)
  entrypos,       \* file position at which the entry read last began
  seeks,          \* number of fseeko calls made by read_tiff_value so far
  decoded,        \* the offsets at which a directory was decoded, in order
  heap,           \* live allocations: tl struct, tables, items
  result,         \* what _openslide_tifflike_create returned
  err,            \* the GError set by the call
  ok,             \* the caller's bool ok handed to the accessors
  call,           \* the last accessor / hash call and what it returned
  hash,           \* the quickhash accumulator
  properties      \* osr->properties, the property table

vars == <<inp, file, pos, pc, big_endian, bigtiff, diroff, loop_detector,
          directories, off, dircount, n, ht, entrypos, seeks, decoded, heap,
          result, err, ok, call, hash, properties>>

createVars == <<pos, pc, big_endian, bigtiff, diroff, loop_detector,
                directories, off, dircount, n, ht, entrypos, seeks, decoded,
                heap, result, err>>

-----------------------------------------------------------------------------
(* Numerals *)

Byte == 0..255

Zeros(k) == [i \in 1..k |-> 0]

Reverse(s) == [i \in 1..Len(s) |-> s[Len(s) + 1 - i]]

\* a value of `size` bytes widened to uint64_t
U64(bytes) == Zeros(8 - Len(bytes)) \o bytes

Zero64 == Zeros(8)

IsZero(w) == \A i \in 1..Len(w) : w[i] = 0

\* the sign of a uint64_t converted to int64_t
IsNeg(w) == w[1] >= 128

\* the value is below 2^24: it can be a length or a position in a file
Fits(w) == \A i \in 1..(Len(w) - 3) : w[i] = 0

Val(w) == w[Len(w) - 2] * 65536 + w[Len(w) - 1] * 256 + w[Len(w)]

Val16(w) == w[Len(w) - 1] * 256 + w[Len(w)]

\* the numeral of k bytes of a natural number
RECURSIVE Numeral(_, _)
Numeral(v, k) == IF k = 0 THEN <<>> ELSE Numeral(v \div 256, k - 1) \o <<v % 256>>

\* a position no file of the model reaches: every offset of 2^24 or more
FarPos == 256 * 256 * 256

\* unsigned comparison of numerals of the same length
RECURSIVE LessU(_, _)
LessU(a, b) ==
  IF Len(a) = 0 THEN FALSE
  ELSE IF a[1] # b[1] THEN a[1] < b[1]
  ELSE LessU(Tail(a), Tail(b))

\* signed comparison a > b of two int64_t
GreaterS(a, b) ==
  IF IsNeg(a) # IsNeg(b) THEN IsNeg(b) ELSE LessU(b, a)

\* a + b modulo 2^64
RECURSIVE AddCarry(_, _, _, _)
AddCarry(a, b, i, carry) ==
  IF i = 0 THEN <<>>
  ELSE LET s == a[i] + b[i] + carry
       IN  AddCarry(a, b, i - 1, s \div 256) \o <<s % 256>>

Add64(a, b) == AddCarry(a, b, 8, 0)

\* count *= 2 on a uint64_t
Double64(w) == Add64(w, w)

-----------------------------------------------------------------------------
(* Program constants *)

TIFF_BIGENDIAN_BYTE == 77
TIFF_LITTLEENDIAN_BYTE == 73
TIFF_VERSION_CLASSIC == 42
TIFF_VERSION_BIG == 43

TIFF_BYTE == 1
TIFF_ASCII == 2
TIFF_SHORT == 3
TIFF_LONG == 4
TIFF_RATIONAL == 5
TIFF_SBYTE == 6
TIFF_UNDEFINED == 7
TIFF_SSHORT == 8
TIFF_SLONG == 9
TIFF_SRATIONAL == 10
TIFF_FLOAT == 11
TIFF_DOUBLE == 12
TIFF_IFD == 13
TIFF_LONG8 == 16
TIFF_SLONG8 == 17
TIFF_IFD8 == 18

TIFFTAG_IMAGEWIDTH == 256
TIFFTAG_IMAGELENGTH == 257
TIFFTAG_STRIPOFFSETS == 273
TIFFTAG_STRIPBYTECOUNTS == 279
TIFFTAG_TILEOFFSETS == 324
TIFFTAG_TILEBYTECOUNTS == 325

TIFFTAG_DOCUMENTNAME == 269
TIFFTAG_IMAGEDESCRIPTION == 270
TIFFTAG_MAKE == 271
TIFFTAG_MODEL == 272
TIFFTAG_XRESOLUTION == 282
TIFFTAG_YRESOLUTION == 283
TIFFTAG_XPOSITION == 286
TIFFTAG_YPOSITION == 287
TIFFTAG_RESOLUTIONUNIT == 296
TIFFTAG_SOFTWARE == 305
TIFFTAG_DATETIME == 306
TIFFTAG_ARTIST == 315
TIFFTAG_HOSTCOMPUTER == 316
TIFFTAG_COPYRIGHT == 33432

RESUNIT_NONE == 1
RESUNIT_INCH == 2
RESUNIT_CENTIMETER == 3

OPENSLIDE_PROPERTY_NAME_COMMENT == "openslide.comment"

NoError == [code |-> "none", msg |-> ""]
FormatNotSupported(m) == [code |-> "FORMAT_NOT_SUPPORTED", msg |-> m]
BadData(m) == [code |-> "BAD_DATA", msg |-> m]
IOError(m) == [code |-> "IO", msg |-> m]

-----------------------------------------------------------------------------
(* stdio on the FILE *f.  The file holds Len(file) bytes; positions count  *)
(* from 0.  Positions of 2^24 or more are all FarPos.                      *)

\* fread(buf, len, 1, f) == 1 at position p
fread_ok(p, len) == p + len <= Len(file)

\* the position a fread of len bytes at p leaves
fread_pos(p, len) ==
  IF fread_ok(p, len) THEN p + len
  ELSE IF p > Len(file) THEN p ELSE Len(file)

fread_bytes(p, len) == SubSeq(file, p + 1, p + len)

\* fseeko(f, offset, SEEK_SET) != 0: a negative offset is EINVAL; an offset
\* beyond what the file system supports fails too, which `env` decides
fseeko_fails(offset, env) == IsNeg(offset) \/ (~Fits(offset) /\ ~env)

fseeko_pos(offset) == IF Fits(offset) THEN Val(offset) ELSE FarPos

-----------------------------------------------------------------------------
(* fix_byte_order: `count` elements of `size` bytes each, from the byte    *)
(* order of the file to values                                             *)
fix_byte_order(data, size, count, be) ==
  [i \in 1..count |->
     LET raw == SubSeq(data, (i - 1) * size + 1, i * size)
     IN  IF size = 1 THEN raw
         ELSE IF be THEN raw ELSE Reverse(raw)]

\* read_uint: only sets *ok on failure
read_uint(p, size, be, okIn) ==
  IF ~fread_ok(p, size)
  THEN [v |-> Zero64, ok |-> FALSE, pos |-> fread_pos(p, size)]
  ELSE [v   |-> U64(fix_byte_order(fread_bytes(p, size), size, 1, be)[1]),
        ok  |-> okIn,
        pos |-> p + size]

\* count > SSIZE_MAX / size, for a positive int64_t count and size in {1,2,4,8}
OverSsize(count, size) == count[1] >= 128 \div size

Null(p, s) == [null |-> TRUE, value |-> <<>>, pos |-> p, seeks |-> s]

\* fseeko(f, old_off, SEEK_SET) after the value was read at position cur
seek_back_dropped(old_off, cur) == cur

seek_back(old_off, cur) == old_off

\* read_tiff_value.  allocOk: g_try_malloc succeeded; env: see fseeko_fails
read_tiff_value(p, size, count, offset, value, value_len, be, allocOk, env) ==
  IF size <= 0 \/ IsNeg(count) \/ IsZero(count) \/ OverSsize(count, size)
  THEN Null(p, 0)
  ELSE IF ~allocOk THEN Null(p, 0)
  ELSE
    LET len == IF Fits(count) THEN size * Val(count) ELSE FarPos
    IN  IF len <= value_len
        THEN \* inline
             [null  |-> FALSE,
              value |-> fix_byte_order(SubSeq(value, 1, len), size,
                                       Val(count), be),
              pos   |-> p,
              seeks |-> 0]
        ELSE IF fseeko_fails(offset, env) THEN Null(p, 1)
        ELSE IF ~fread_ok(fseeko_pos(offset), len)
             THEN Null(fread_pos(fseeko_pos(offset), len), 1)
        ELSE [null  |-> FALSE,
              value |-> fix_byte_order(fread_bytes(fseeko_pos(offset), len),
                                       size, Val(count), be),
              pos   |-> seek_back(p, fread_pos(fseeko_pos(offset), len)),
              seeks |-> 2]

\* the switch on type in read_directory: 0 for an unknown type
value_size(type) ==
  CASE type \in {TIFF_BYTE, TIFF_ASCII, TIFF_SBYTE, TIFF_UNDEFINED} -> 1
    [] type \in {TIFF_SHORT, TIFF_SSHORT} -> 2
    [] type \in {TIFF_LONG, TIFF_SLONG, TIFF_FLOAT, TIFF_IFD} -> 4
    [] type \in {TIFF_RATIONAL, TIFF_SRATIONAL} -> 4
    [] type \in {TIFF_DOUBLE, TIFF_LONG8, TIFF_SLONG8, TIFF_IFD8} -> 8
    [] OTHER -> 0

\* the count handed to read_tiff_value: doubled for the rationals
raw_count(type, count) ==
  IF type \in {TIFF_RATIONAL, TIFF_SRATIONAL} THEN Double64(count) ELSE count

-----------------------------------------------------------------------------
(* Hash tables and the heap *)

EmptyTable == <<>>

TableInsert_keepfirst(t, tag, item) ==
  [k \in DOMAIN t \cup {tag} |-> IF k \in DOMAIN t THEN t[k] ELSE item]

\* g_hash_table_insert: a later entry of the same tag replaces the earlier
TableInsert(t, tag, item) ==
  [k \in DOMAIN t \cup {tag} |-> IF k = tag THEN item ELSE t[k]]

RECURSIVE ItemsOf(_)
ItemsOf(dirs) ==
  IF Len(dirs) = 0 THEN 0
  ELSE Cardinality(DOMAIN Head(dirs)) + ItemsOf(Tail(dirs))

HeapAfterFail_leak(h, cur, dirs) ==
  [tl     |-> 0,
   tables |-> h.tables - Len(cur),
   items  |-> h.items - ItemsOf(cur)]

\* the heap after read_directory's FAIL label and the FAIL label of create:
\* the table in progress and every table of tl are unreferenced, tl is freed
HeapAfterFail(h, cur, dirs) ==
  [tl     |-> 0,
   tables |-> h.tables - Len(cur) - Len(dirs),
   items  |-> h.items - ItemsOf(cur) - ItemsOf(dirs)]

-----------------------------------------------------------------------------
(* _openslide_tifflike_create *)

bigtiff_header_bad_nopad(offset_size, pad) == offset_size # 8

\* the validation of a BigTIFF header
bigtiff_header_bad(offset_size, pad) == offset_size # 8 \/ pad # 0

\* a return of NULL before the struct is allocated
HeaderFail(e, p) ==
  /\ pc' = "done"
  /\ result' = "NULL"
  /\ err' = e
  /\ pos' = p
  /\ UNCHANGED <<diroff, loop_detector, directories, off, dircount, n, ht,
                 entrypos, seeks, decoded, heap>>

\* the header: magic, version, the BigTIFF fields, the first directory offset
CreateHeader ==
  /\ pc = "start"
  /\ IF ~fread_ok(0, 2)
     THEN /\ HeaderFail(FormatNotSupported("Can't read TIFF magic number"),
                        fread_pos(0, 2))
          /\ UNCHANGED <<big_endian, bigtiff>>
     ELSE
     LET magic == fread_bytes(0, 2)
         be == magic = <<TIFF_BIGENDIAN_BYTE, TIFF_BIGENDIAN_BYTE>>
         r1 == read_uint(2, 2, be, TRUE)
         version == Val16(r1.v)
         big == version = TIFF_VERSION_BIG
         r2 == IF big THEN read_uint(r1.pos, 2, be, r1.ok)
               ELSE [v |-> Zero64, ok |-> r1.ok, pos |-> r1.pos]
         r3 == IF big THEN read_uint(r2.pos, 2, be, r2.ok)
               ELSE [v |-> Zero64, ok |-> r2.ok, pos |-> r2.pos]
         r4 == read_uint(r3.pos, IF big THEN 8 ELSE 4, be, r3.ok)
         offset_size == Val16(r2.v)
         pad == Val16(r3.v)
     IN  IF magic \notin {<<TIFF_BIGENDIAN_BYTE, TIFF_BIGENDIAN_BYTE>>,
                          <<TIFF_LITTLEENDIAN_BYTE, TIFF_LITTLEENDIAN_BYTE>>}
         THEN /\ HeaderFail(FormatNotSupported("Unrecognized TIFF magic number"), 2)
              /\ UNCHANGED <<big_endian, bigtiff>>
         ELSE
         /\ big_endian' = be
         /\ bigtiff' = big
         /\ IF ~r4.ok
            THEN HeaderFail(FormatNotSupported("Can't read TIFF header"), r4.pos)
            ELSE IF big /\ bigtiff_header_bad(offset_size, pad)
            THEN HeaderFail(FormatNotSupported("Unexpected value in BigTIFF header"),
                            r4.pos)
            ELSE IF ~big /\ version # TIFF_VERSION_CLASSIC
            THEN HeaderFail(FormatNotSupported("Unrecognized TIFF version"), r4.pos)
            ELSE /\ pc' = "loop"
                 /\ diroff' = r4.v
                 /\ pos' = r4.pos
                 /\ heap' = [heap EXCEPT !.tl = 1]
                 /\ UNCHANGED <<loop_detector, directories, off, dircount, n,
                                ht, entrypos, seeks, decoded, result, err>>
  /\ UNCHANGED <<inp, file, ok, call, hash, properties>>

\* read_directory's FAIL label, then the FAIL label of create: the table in
\* progress `cur` and all of tl are released, NULL is returned.  h is the heap
\* at the goto.
WalkFail(e, p, h, cur) ==
  /\ pc' = "done"
  /\ result' = "NULL"
  /\ err' = e
  /\ pos' = p
  /\ heap' = HeapAfterFail(h, cur, directories)
  /\ directories' = <<>>
  /\ ht' = <<>>
  /\ loop_detector' = {}
  /\ diroff' = Zero64

loop_detected_never(o) == FALSE

\* g_hash_table_lookup_extended(loop_detector, &off, NULL, NULL)
loop_detected(o) == o \in loop_detector

loop_insert_dropped(ld, o) == ld

\* g_hash_table_insert(loop_detector, key, NULL)
loop_insert(ld, o) == ld \cup {o}

\* read_directory up to the first entry: offset check, loop detection, seek,
\* the directory count
ReadDirectoryBegin(env) ==
  /\ pc = "loop"
  /\ ~IsZero(diroff)
  /\ off' = diroff
  /\ IF IsNeg(diroff)
     THEN /\ WalkFail(BadData("Bad offset"), pos, heap, <<>>)
          /\ UNCHANGED <<dircount, n, decoded>>
     ELSE IF loop_detected(diroff)
     THEN /\ WalkFail(BadData("Loop detected"), pos, heap, <<>>)
          /\ UNCHANGED <<dircount, n, decoded>>
     ELSE IF fseeko_fails(diroff, env)
     THEN /\ WalkFail(IOError("Cannot seek to offset"), pos, heap, <<>>)
          /\ UNCHANGED <<dircount, n, decoded>>
     ELSE
       LET r == read_uint(fseeko_pos(diroff), IF bigtiff THEN 8 ELSE 2,
                          big_endian, TRUE)
       IN  /\ decoded' = Append(decoded, diroff)
           /\ IF ~r.ok
              THEN /\ WalkFail(BadData("Cannot read dircount"), r.pos, heap, <<>>)
                   /\ UNCHANGED <<dircount, n>>
              ELSE /\ pc' = "entries"
                   /\ dircount' = r.v
                   /\ n' = 0
                   /\ ht' = <<EmptyTable>>
                   /\ heap' = [heap EXCEPT !.tables = @ + 1]
                   /\ pos' = r.pos
                   /\ loop_detector' = loop_insert(loop_detector, diroff)
                   /\ diroff' = Zero64
                   /\ UNCHANGED <<directories, result, err>>
  /\ UNCHANGED <<big_endian, bigtiff, entrypos, seeks>>
  /\ UNCHANGED <<inp, file, ok, call, hash, properties>>

\* n < dircount
MoreEntries == ~Fits(dircount) \/ n < Val(dircount)

\* one iteration of read_directory's loop over the entries
ReadDirectoryEntry(allocOk, env) ==
  /\ pc = "entries"
  /\ MoreEntries
  /\ entrypos' = pos
  /\ LET r1 == read_uint(pos, 2, big_endian, TRUE)
         r2 == read_uint(r1.pos, 2, big_endian, r1.ok)
         r3 == read_uint(r2.pos, IF bigtiff THEN 8 ELSE 4, big_endian, r2.ok)
         tag == Val16(r1.v)
         type == Val16(r2.v)
         count == r3.v
         fw == IF bigtiff THEN 8 ELSE 4
         value == fread_bytes(r3.pos, fw)
         p4 == r3.pos + fw
         offset == U64(fix_byte_order(value, fw, 1, big_endian)[1])
         h1 == [heap EXCEPT !.items = @ + 1]
         rv == read_tiff_value(p4, value_size(type), raw_count(type, count),
                               offset, value, fw, big_endian, allocOk, env)
         item == [type |-> type, count |-> count, value |-> rv.value]
     IN  IF ~r3.ok
         THEN /\ WalkFail(BadData("Cannot read tag, type, and count"), r3.pos,
                          heap, ht)
              /\ UNCHANGED <<n, seeks>>
         ELSE IF ~fread_ok(r3.pos, fw)
         THEN /\ WalkFail(BadData("Cannot read value/offset"),
                          fread_pos(r3.pos, fw), heap, ht)
              /\ UNCHANGED <<n, seeks>>
         ELSE IF value_size(type) = 0
         THEN /\ WalkFail(BadData("Unknown type encountered"), p4, h1, ht)
              /\ UNCHANGED <<n, seeks>>
         ELSE IF rv.null
         THEN /\ WalkFail(BadData("Cannot read value"), rv.pos, h1, ht)
              /\ seeks' = seeks + rv.seeks
              /\ UNCHANGED n
         ELSE /\ ht' = <<TableInsert(ht[1], tag, item)>>
              /\ heap' = IF tag \in DOMAIN ht[1] THEN heap ELSE h1
              /\ n' = n + 1
              /\ pos' = rv.pos
              /\ seeks' = seeks + rv.seeks
              /\ UNCHANGED <<pc, diroff, loop_detector, directories, result, err>>
  /\ UNCHANGED <<big_endian, bigtiff, off, dircount, decoded>>
  /\ UNCHANGED <<inp, file, ok, call, hash, properties>>

g_ptr_array_add_front(dirs, t) == <<t>> \o dirs

\* g_ptr_array_add(tl->directories, ht)
g_ptr_array_add(dirs, t) == Append(dirs, t)

\* the next directory offset; the table joins tl->directories
ReadDirectoryEnd ==
  /\ pc = "entries"
  /\ ~MoreEntries
  /\ LET r == read_uint(pos, IF bigtiff THEN 8 ELSE 4, big_endian, TRUE)
     IN  IF ~r.ok
         THEN WalkFail(BadData("Cannot read next directory offset"), r.pos,
                       heap, ht)
         ELSE /\ pc' = "loop"
              /\ diroff' = r.v
              /\ pos' = r.pos
              /\ directories' = g_ptr_array_add(directories, ht[1])
              /\ ht' = <<>>
              /\ UNCHANGED <<loop_detector, heap, result, err>>
  /\ UNCHANGED <<big_endian, bigtiff, off, dircount, n, entrypos, seeks, decoded>>
  /\ UNCHANGED <<inp, file, ok, call, hash, properties>>

no_directories_unchecked(dirs) == FALSE

\* tl->directories->len == 0
no_directories(dirs) == Len(dirs) = 0

\* the end of the chain: diroff == 0
CreateFinish ==
  /\ pc = "loop"
  /\ IsZero(diroff)
  /\ IF no_directories(directories)
     THEN WalkFail(BadData("TIFF contains no directories"), pos, heap, <<>>)
     ELSE /\ pc' = "done"
          /\ result' = "tl"
          /\ loop_detector' = {}
          /\ UNCHANGED <<pos, diroff, directories, ht, heap, err>>
  /\ UNCHANGED <<big_endian, bigtiff, off, dircount, n, entrypos, seeks, decoded>>
  /\ UNCHANGED <<inp, file, ok, call, hash, properties>>

-----------------------------------------------------------------------------
(* The accessors.  dir and i are small integers; a directory index counts  *)
(* from 0 as in the C code.  NoItem stands for a NULL item.                *)

NoItem == [type |-> 0, count |-> Zero64, value |-> <<>>]

\* get_item
get_item(dir, tag) ==
  IF dir < 0 \/ dir >= Len(directories) THEN NoItem
  ELSE IF tag \in DOMAIN directories[dir + 1] THEN directories[dir + 1][tag]
  ELSE NoItem

\* _openslide_tifflike_get_directory_count
get_directory_count == Len(directories)

\* _openslide_tifflike_get_value_count: an int64_t
get_value_count(dir, tag) ==
  IF get_item(dir, tag) = NoItem THEN Zero64 ELSE get_item(dir, tag).count

\* i >= item->count, for 0 <= i and an int64_t count
IndexPastCount(i, count) ==
  IF IsNeg(count) THEN TRUE
  ELSE IF Fits(count) THEN i >= Val(count)
  ELSE FALSE

\* get_and_check_item: TRUE when the item is there and i is inside it
get_and_check_item(dir, tag, i) ==
  ~(get_item(dir, tag) = NoItem \/ i < 0
    \/ IndexPastCount(i, get_item(dir, tag).count))

SignExtend(w) == (IF w[1] >= 128 THEN [j \in 1..(8 - Len(w)) |-> 255]
                  ELSE Zeros(8 - Len(w))) \o w

get_uint_noifd(dir, tag, i, okIn) ==
  IF ~get_and_check_item(dir, tag, i) THEN [ret |-> Zero64, ok |-> FALSE]
  ELSE LET item == get_item(dir, tag)
       IN  IF item.type \in {TIFF_BYTE, TIFF_SHORT, TIFF_LONG, TIFF_LONG8,
                             TIFF_IFD8}
           THEN [ret |-> U64(item.value[i + 1]), ok |-> okIn]
           ELSE [ret |-> Zero64, ok |-> FALSE]

\* _openslide_tifflike_get_uint: the value returned and the caller's flag
get_uint(dir, tag, i, okIn) ==
  IF ~get_and_check_item(dir, tag, i) THEN [ret |-> Zero64, ok |-> FALSE]
  ELSE LET item == get_item(dir, tag)
       IN  IF item.type \in {TIFF_BYTE, TIFF_SHORT, TIFF_LONG, TIFF_IFD,
                             TIFF_LONG8, TIFF_IFD8}
           THEN [ret |-> U64(item.value[i + 1]), ok |-> okIn]
           ELSE [ret |-> Zero64, ok |-> FALSE]

get_sint_setsok(dir, tag, i, okIn) ==
  IF ~get_and_check_item(dir, tag, i) THEN [ret |-> Zero64, ok |-> FALSE]
  ELSE LET item == get_item(dir, tag)
       IN  IF item.type \in {TIFF_SBYTE, TIFF_SSHORT, TIFF_SLONG, TIFF_SLONG8}
           THEN [ret |-> SignExtend(item.value[i + 1]), ok |-> TRUE]
           ELSE [ret |-> Zero64, ok |-> FALSE]

\* _openslide_tifflike_get_sint
get_sint(dir, tag, i, okIn) ==
  IF ~get_and_check_item(dir, tag, i) THEN [ret |-> Zero64, ok |-> FALSE]
  ELSE LET item == get_item(dir, tag)
       IN  IF item.type \in {TIFF_SBYTE, TIFF_SSHORT, TIFF_SLONG, TIFF_SLONG8}
           THEN [ret |-> SignExtend(item.value[i + 1]), ok |-> okIn]
           ELSE [ret |-> Zero64, ok |-> FALSE]

\* a double: the bits of a float or double, the quotient of two integers
\* converted to double (IEEE division: x/0 is an infinity or a NaN), or NAN
NaN == [kind |-> "nan", a |-> Zero64, b |-> Zero64]

\* _openslide_tifflike_get_float
get_float(dir, tag, i, okIn) ==
  IF ~get_and_check_item(dir, tag, i) THEN [ret |-> NaN, ok |-> FALSE]
  ELSE LET item == get_item(dir, tag)
       IN  CASE item.type = TIFF_FLOAT ->
                  [ret |-> [kind |-> "float", a |-> U64(item.value[i + 1]),
                            b |-> Zero64],
                   ok |-> okIn]
             [] item.type = TIFF_DOUBLE ->
                  [ret |-> [kind |-> "double", a |-> item.value[i + 1],
                            b |-> Zero64],
                   ok |-> okIn]
             [] item.type = TIFF_RATIONAL ->
                  [ret |-> [kind |-> "quotient",
                            a |-> U64(item.value[i * 2 + 1]),
                            b |-> U64(item.value[i * 2 + 2])],
                   ok |-> okIn]
             [] item.type = TIFF_SRATIONAL ->
                  [ret |-> [kind |-> "quotient",
                            a |-> SignExtend(item.value[i * 2 + 1]),
                            b |-> SignExtend(item.value[i * 2 + 2])],
                   ok |-> okIn]
             [] OTHER -> [ret |-> NaN, ok |-> FALSE]

-----------------------------------------------------------------------------
(* The quickhash accumulator and hash_tiff_level *)

\* _openslide_hash_disable
hash_disable(h) == [h EXCEPT !.enabled = FALSE]

\* _openslide_hash_file_part can read `length` bytes at `offset`
hash_file_part_ok(offset, length) ==
  /\ ~IsNeg(offset) /\ ~IsNeg(length)
  /\ Fits(offset) /\ Fits(length)
  /\ Val(offset) + Val(length) <= Len(file)

\* _openslide_hash_file_part feeds the bytes of the file part
hash_file_part(h, offset, length) ==
  [h EXCEPT !.fed = Append(@, <<"part", offset, length>>)]

FiveMiB == <<0, 0, 0, 0, 0, 80, 0, 0>>

\* the loop "check total size" from index i on: TRUE when the total exceeds
\* 5 << 20 at some index; okIn is the flag at index i
RECURSIVE total_exceeds(_, _, _, _, _)
total_exceeds(dir, length_tag, i, cnt, total) ==
  IF i >= cnt THEN FALSE
  ELSE LET t == Add64(total, get_uint(dir, length_tag, i, TRUE).ret)
       IN  IF GreaterS(t, FiveMiB) THEN TRUE
           ELSE total_exceeds(dir, length_tag, i + 1, cnt, t)

\* the flag ok after the loop "check total size" has run over all indexes
scan_ok(dir, length_tag, cnt) ==
  \A i \in 0..(cnt - 1) : get_uint(dir, length_tag, i, TRUE).ok

\* the loop "hash raw data of each tile/strip" from index i on
RECURSIVE hash_parts(_, _, _, _, _, _, _)
hash_parts(h, dir, offset_tag, length_tag, i, cnt, okIn) ==
  IF i >= cnt THEN [ret |-> TRUE, err |-> NoError, hash |-> h]
  ELSE LET o == get_uint(dir, offset_tag, i, okIn)
           l == get_uint(dir, length_tag, i, o.ok)
       IN  IF ~l.ok
           THEN [ret |-> FALSE,
                 err |-> BadData("Invalid tile/strip offset/length"),
                 hash |-> h]
           ELSE IF ~hash_file_part_ok(o.ret, l.ret)
           THEN [ret |-> FALSE, err |-> BadData("Cannot read file part"),
                 hash |-> h]
           ELSE hash_parts(hash_file_part(h, o.ret, l.ret), dir, offset_tag,
                           length_tag, i + 1, cnt, l.ok)

\* the number of iterations of "for (i = 0; i < count; i++)", count an int64_t
Iterations(count) == IF IsNeg(count) THEN 0 ELSE Val(count)

layout_tiled_nostrips(dir) ==
  /\ ~IsZero(get_value_count(dir, TIFFTAG_TILEOFFSETS))
  /\ IsZero(get_value_count(dir, TIFFTAG_STRIPOFFSETS))

\* "determine layout": the directory is tiled
layout_tiled(dir) == ~IsZero(get_value_count(dir, TIFFTAG_TILEOFFSETS))

\* hash_tiff_level
hash_tiff_level(h, dir) ==
  LET tiled == layout_tiled(dir)
      stripped == ~IsZero(get_value_count(dir, TIFFTAG_STRIPOFFSETS))
      offset_tag == IF tiled THEN TIFFTAG_TILEOFFSETS ELSE TIFFTAG_STRIPOFFSETS
      length_tag == IF tiled THEN TIFFTAG_TILEBYTECOUNTS
                    ELSE TIFFTAG_STRIPBYTECOUNTS
      count == get_value_count(dir, offset_tag)
      cnt == Iterations(count)
  IN  IF ~tiled /\ ~stripped
      THEN [ret |-> FALSE, err |-> BadData("neither tiled nor stripped"),
            hash |-> h]
      ELSE IF IsZero(count) \/ count # get_value_count(dir, length_tag)
      THEN [ret |-> FALSE, err |-> BadData("Invalid tile/strip counts"),
            hash |-> h]
      ELSE IF total_exceeds(dir, length_tag, 0, cnt, Zero64)
      THEN [ret |-> TRUE, err |-> NoError, hash |-> hash_disable(h)]
      ELSE hash_parts(h, dir, offset_tag, length_tag, 0, cnt,
                      scan_ok(dir, length_tag, cnt))

-----------------------------------------------------------------------------
(* The properties: store_and_hash_properties and                           *)
(* _openslide_tifflike_init_properties_and_hash.  A C string is the        *)
(* sequence of its bytes before the NUL; a property table maps names to    *)
(* values.                                                                 *)

NullBuffer == [null |-> TRUE, bytes |-> <<>>]

\* _openslide_tifflike_get_buffer: the bytes of the value, or NULL
get_buffer(dir, tag) ==
  LET item == get_item(dir, tag)
  IN  IF item = NoItem THEN NullBuffer
      ELSE IF item.type \in {TIFF_ASCII, TIFF_UNDEFINED}
      THEN [null |-> FALSE, bytes |-> [k \in 1..Len(item.value) |-> item.value[k][1]]]
      ELSE NullBuffer

\* the buffer holds a NUL
Terminated(bytes) == \E k \in 1..Len(bytes) : bytes[k] = 0

\* the bytes before the first NUL
RECURSIVE UpToNul(_)
UpToNul(bytes) ==
  IF Len(bytes) = 0 \/ Head(bytes) = 0 THEN <<>>
  ELSE <<Head(bytes)>> \o UpToNul(Tail(bytes))

\* what lies behind a buffer that holds no NUL, when strlen reads on: a NUL,
\* a byte and then a NUL, or memory that cannot be read
OverReadOutcomes == {"nul", "byte", "fault"}

JunkByte == 255

\* g_strdup(buf): the copy of the C string that begins at buf
g_strdup(bytes, outcome) ==
  IF Terminated(bytes) THEN UpToNul(bytes)
  ELSE IF outcome = "byte" THEN Append(bytes, JunkByte)
  ELSE bytes

\* _openslide_hash_string(quickhash1, str), str a property name
hash_name(h, name) == [h EXCEPT !.fed = Append(@, <<"name", name>>)]

\* _openslide_hash_string(quickhash1, str), str a property value or NULL
hash_value(h, v) ==
  [h EXCEPT !.fed = Append(@, IF v.null THEN <<"null">> ELSE <<"value", v.bytes>>)]

\* _openslide_format_double
format_double(v) == <<"double", v>>

\* the string properties in the order of store_and_hash_properties; the
\* first is stored and not hashed
StringProperties ==
  << <<OPENSLIDE_PROPERTY_NAME_COMMENT, TIFFTAG_IMAGEDESCRIPTION>>,
     <<"tiff.ImageDescription", TIFFTAG_IMAGEDESCRIPTION>>,
     <<"tiff.Make", TIFFTAG_MAKE>>,
     <<"tiff.Model", TIFFTAG_MODEL>>,
     <<"tiff.Software", TIFFTAG_SOFTWARE>>,
     <<"tiff.DateTime", TIFFTAG_DATETIME>>,
     <<"tiff.Artist", TIFFTAG_ARTIST>>,
     <<"tiff.HostComputer", TIFFTAG_HOSTCOMPUTER>>,
     <<"tiff.Copyright", TIFFTAG_COPYRIGHT>>,
     <<"tiff.DocumentName", TIFFTAG_DOCUMENTNAME>> >>

FloatProperties ==
  << <<"tiff.XResolution", TIFFTAG_XRESOLUTION>>,
     <<"tiff.YResolution", TIFFTAG_YRESOLUTION>>,
     <<"tiff.XPosition", TIFFTAG_XPOSITION>>,
     <<"tiff.YPosition", TIFFTAG_YPOSITION>> >>

\* the string properties of directory dir whose g_strdup reads past the
\* buffer
OverReads(dir) ==
  { k \in 1..Len(StringProperties) :
      LET buf == get_buffer(dir, StringProperties[k][2])
      IN  ~buf.null /\ ~Terminated(buf.bytes) }

\* store_string_property: the table and the value returned (NULL when there
\* is no buffer); fault when g_strdup reads memory that cannot be read
store_string_property(dir, props, name, tag, outcome) ==
  LET buf == get_buffer(dir, tag)
  IN  IF buf.null THEN [props |-> props, value |-> NullBuffer, fault |-> FALSE]
      ELSE IF ~Terminated(buf.bytes) /\ outcome = "fault"
      THEN [props |-> props, value |-> NullBuffer, fault |-> TRUE]
      ELSE LET value == g_strdup(buf.bytes, outcome)
           IN  [props |-> TableInsert(props, name, <<"string", value>>),
                value |-> [null |-> FALSE, bytes |-> value],
                fault |-> FALSE]

Hashed_all(k) == TRUE

\* the k-th string property goes through store_and_hash_string_property:
\* all but the comment, which store_string_property stores unhashed
Hashed(k) == k # 1

\* the string properties from the k-th on: the comment, then
\* store_and_hash_string_property nine times
RECURSIVE store_strings(_, _, _, _, _)
store_strings(k, dir, props, h, over) ==
  IF k > Len(StringProperties) THEN [props |-> props, hash |-> h, fault |-> FALSE]
  ELSE LET name == StringProperties[k][1]
           tag == StringProperties[k][2]
           h1 == IF Hashed(k) THEN hash_name(h, name) ELSE h
           r == store_string_property(dir, props, name, tag,
                                      IF k \in DOMAIN over THEN over[k] ELSE "nul")
       IN  IF r.fault THEN [props |-> props, hash |-> h1, fault |-> TRUE]
           ELSE store_strings(k + 1, dir, r.props,
                              IF Hashed(k) THEN hash_value(h1, r.value) ELSE h1,
                              over)

\* store_float_property, for the k-th float property and those after it
RECURSIVE store_floats(_, _, _)
store_floats(k, dir, props) ==
  IF k > Len(FloatProperties) THEN props
  ELSE LET r == get_float(dir, FloatProperties[k][2], 0, TRUE)
       IN  store_floats(k + 1, dir,
                        IF r.ok
                        THEN TableInsert(props, FloatProperties[k][1],
                                         format_double(r.ret))
                        ELSE props)

resolution_unit_nodefault(dir) == get_uint(dir, TIFFTAG_RESOLUTIONUNIT, 0, TRUE).ret

\* the resolution unit read, RESUNIT_INCH when the lookup fails
resolution_unit(dir) ==
  LET r == get_uint(dir, TIFFTAG_RESOLUTIONUNIT, 0, TRUE)
  IN  IF ~r.ok THEN Numeral(RESUNIT_INCH, 8) ELSE r.ret

\* switch(resolution_unit)
resolution_unit_name(u) ==
  IF u = Numeral(RESUNIT_NONE, 8) THEN "none"
  ELSE IF u = Numeral(RESUNIT_INCH, 8) THEN "inch"
  ELSE IF u = Numeral(RESUNIT_CENTIMETER, 8) THEN "centimeter"
  ELSE "unknown"

\* store_and_hash_properties
store_and_hash_properties(dir, props, h, over) ==
  LET s == store_strings(1, dir, props, h, over)
  IN  IF s.fault THEN s
      ELSE [props |-> TableInsert(store_floats(1, dir, s.props), "tiff.ResolutionUnit",
                               <<"string", resolution_unit_name(resolution_unit(dir))>>),
            hash |-> s.hash,
            fault |-> FALSE]

-----------------------------------------------------------------------------
(* The input files.  A file is written from a description                  *)
(*   [be, big, magic, version, offsize, pad, first, dirs, cut]             *)
(* in the layout _openslide_tifflike_create and read_directory read:       *)
(* header, the directories one after the other, then the values that do    *)
(* not fit an entry's value field.  A link (first, next) is 0 for the end  *)
(* of the chain, k >= 1 for directory k, LinkTop for an offset with the    *)
(* top bit set, LinkPast for an offset just past the end of the file and   *)
(* LinkHuge for a positive offset of 2^24 or more.  cut is the number of   *)
(* bytes missing at the end of the file.                                   *)

LinkTop == 0 - 1
LinkPast == 0 - 2
LinkHuge == 0 - 3

Enc(w, be) == IF be THEN w ELSE Reverse(w)

HdrLen(big) == IF big THEN 16 ELSE 8
DirCountLen(big) == IF big THEN 8 ELSE 2
FieldLen(big) == IF big THEN 8 ELSE 4
EntryLen(big) == 4 + 2 * FieldLen(big)

RECURSIVE Concat(_)
Concat(ss) == IF Len(ss) = 0 THEN <<>> ELSE Head(ss) \o Concat(Tail(ss))

ByteLen(e) == Len(Concat(e.elems))

\* the writer stores a value outside the entry when it does not fit the field
OutOfLine(e, big) == e.place = "auto" /\ ByteLen(e) > FieldLen(big)

DirLen(d, big) == DirCountLen(big) + Len(d.entries) * EntryLen(big) + FieldLen(big)

RECURSIVE DirsLen(_, _)
DirsLen(dirs, big) ==
  IF Len(dirs) = 0 THEN 0 ELSE DirLen(Head(dirs), big) + DirsLen(Tail(dirs), big)

\* the offset of directory k
DirOff(dirs, k, big) == HdrLen(big) + DirsLen(SubSeq(dirs, 1, k - 1), big)

DataOff(dirs, big) == DirOff(dirs, Len(dirs) + 1, big)

FlatEntries(dirs) == Concat([k \in 1..Len(dirs) |-> dirs[k].entries])

RECURSIVE DataLen(_, _)
DataLen(es, big) ==
  IF Len(es) = 0 THEN 0
  ELSE (IF OutOfLine(Head(es), big) THEN ByteLen(Head(es)) ELSE 0)
       + DataLen(Tail(es), big)

FullLen(dirs, big) == DataOff(dirs, big) + DataLen(FlatEntries(dirs), big)

TopWord(k) == <<128>> \o Zeros(k - 2) \o <<1>>
HugeWord(k) == <<1>> \o Zeros(k - 1)

LinkWord(l, dirs, big) ==
  LET k == FieldLen(big)
  IN  CASE l = 0 -> Zeros(k)
        [] l = LinkTop -> TopWord(k)
        [] l = LinkPast -> Numeral(FullLen(dirs, big) + 3, k)
        [] l = LinkHuge -> HugeWord(k)
        [] OTHER -> Numeral(DirOff(dirs, l, big), k)

PadTo(bytes, k) ==
  IF Len(bytes) >= k THEN SubSeq(bytes, 1, k) ELSE bytes \o Zeros(k - Len(bytes))

\* the value field of the entry that is number m of all entries of the file
FieldBytes(e, m, dirs, be, big) ==
  LET k == FieldLen(big)
      flat == FlatEntries(dirs)
  IN  CASE e.place = "top" -> Enc(TopWord(k), be)
        [] e.place = "past" -> Enc(Numeral(FullLen(dirs, big) + 3, k), be)
        [] OutOfLine(e, big) ->
             Enc(Numeral(DataOff(dirs, big)
                         + DataLen(SubSeq(flat, 1, m - 1), big), k), be)
        [] OTHER -> PadTo(Concat([i \in 1..Len(e.elems) |-> Enc(e.elems[i], be)]), k)

EntryBytes(e, m, dirs, be, big) ==
  Enc(Numeral(e.tag, 2), be) \o Enc(Numeral(e.type, 2), be)
  \o Enc(SubSeq(e.count, 9 - FieldLen(big), 8), be)
  \o FieldBytes(e, m, dirs, be, big)

DirBytes(k, dirs, be, big) ==
  LET d == dirs[k]
      before == Len(FlatEntries(SubSeq(dirs, 1, k - 1)))
  IN  Enc(Numeral(Len(d.entries), DirCountLen(big)), be)
      \o Concat([i \in 1..Len(d.entries) |->
                   EntryBytes(d.entries[i], before + i, dirs, be, big)])
      \o Enc(LinkWord(d.next, dirs, big), be)

DataBytes(dirs, be, big) ==
  LET flat == FlatEntries(dirs)
  IN  Concat([m \in 1..Len(flat) |->
                IF OutOfLine(flat[m], big)
                THEN Concat([i \in 1..Len(flat[m].elems) |->
                               Enc(flat[m].elems[i], be)])
                ELSE <<>>])

HeaderBytes(d) ==
  d.magic \o Enc(Numeral(d.version, 2), d.be)
  \o (IF d.version = TIFF_VERSION_BIG
      THEN Enc(Numeral(d.offsize, 2), d.be) \o Enc(Numeral(d.pad, 2), d.be)
      ELSE <<>>)
  \o Enc(LinkWord(d.first, d.dirs, d.big), d.be)

FullBytes(d) ==
  HeaderBytes(d)
  \o Concat([k \in 1..Len(d.dirs) |-> DirBytes(k, d.dirs, d.be, d.big)])
  \o DataBytes(d.dirs, d.be, d.big)

FileBytes(d) ==
  LET full == FullBytes(d)
  IN  SubSeq(full, 1, Len(full) - d.cut)

-----------------------------------------------------------------------------
(* Bounds and the families of input files *)

MaxDirs == 2       \* directories of a chain
MaxEntries == 2    \* entries of a directory
MaxTiles == 2      \* tiles / strips of a level
MaxIndex == 2      \* largest element index handed to an accessor

\* a tag no input file holds
AbsentTag == TIFFTAG_TILEBYTECOUNTS + 1

SeqsUpTo(S, k) == UNION {[1..m -> S] : m \in 0..k}

Entry(tag, type, count, elems, place) ==
  [tag |-> tag, type |-> type, count |-> count, elems |-> elems, place |-> place]

Count(k) == Numeral(k, 8)

\* a raw count whose doubling wraps to 2: 2^63 + 1 (1 in a classic file, whose
\* count field holds the low 4 bytes)
WrapCount == <<128, 0, 0, 0, 0, 0, 0, 1>>

\* entries that exercise the value decoder
ValueEntries ==
  { Entry(TIFFTAG_IMAGEWIDTH, TIFF_SHORT, Count(1), <<(<<1, 2>>)>>, "auto"),
    Entry(TIFFTAG_IMAGEWIDTH, TIFF_LONG, Count(2),
          <<(<<1, 2, 3, 4>>), (<<5, 6, 7, 8>>)>>, "auto"),
    Entry(TIFFTAG_IMAGELENGTH, TIFF_RATIONAL, Count(1),
          <<(<<0, 0, 0, 1>>), (<<0, 0, 0, 2>>)>>, "auto"),
    Entry(TIFFTAG_IMAGELENGTH, TIFF_LONG8, Count(2),
          <<(<<1, 2, 3, 4, 5, 6, 7, 8>>), (<<9, 10, 11, 12, 13, 14, 15, 16>>)>>,
          "auto"),
    Entry(TIFFTAG_IMAGELENGTH, TIFF_BYTE, Count(0), <<>>, "auto"),
    Entry(TIFFTAG_IMAGELENGTH, TIFF_SRATIONAL, WrapCount,
          <<(<<255, 255, 255, 255>>), (<<0, 0, 0, 3>>)>>, "auto"),
    Entry(TIFFTAG_IMAGELENGTH, TIFF_LONG8, Count(2), <<>>, "top"),
    Entry(TIFFTAG_IMAGELENGTH, TIFF_LONG8, Count(2), <<>>, "past"),
    Entry(TIFFTAG_IMAGELENGTH, 14, Count(1), <<(<<1>>)>>, "auto") }

AllTypes ==
  {TIFF_BYTE, TIFF_ASCII, TIFF_SHORT, TIFF_LONG, TIFF_RATIONAL, TIFF_SBYTE,
   TIFF_UNDEFINED, TIFF_SSHORT, TIFF_SLONG, TIFF_SRATIONAL, TIFF_FLOAT,
   TIFF_DOUBLE, TIFF_IFD, TIFF_LONG8, TIFF_SLONG8, TIFF_IFD8}

\* element i of a value of width w: bytes that differ, the first with its
\* top bit set
Elem(w, i) == [j \in 1..w |-> IF j = 1 THEN 128 + i ELSE 16 * i + j]

\* one entry of two elements for every type; the second rational is x/0
TypeEntry(t) ==
  LET w == value_size(t)
  IN  IF t \in {TIFF_RATIONAL, TIFF_SRATIONAL}
      THEN Entry(TIFFTAG_IMAGEWIDTH, t, Count(2),
                 <<Elem(4, 1), Elem(4, 2), Elem(4, 3), Zeros(4)>>, "auto")
      ELSE Entry(TIFFTAG_IMAGEWIDTH, t, Count(2), <<Elem(w, 1), Elem(w, 2)>>,
                 "auto")

ChainEntry(k) ==
  Entry(TIFFTAG_IMAGEWIDTH, TIFF_SHORT, Count(1), <<Numeral(k, 2)>>, "auto")

Links(m) == {0, LinkTop, LinkPast, LinkHuge} \cup 1..m

Magic(be) ==
  IF be THEN <<TIFF_BIGENDIAN_BYTE, TIFF_BIGENDIAN_BYTE>>
  ELSE <<TIFF_LITTLEENDIAN_BYTE, TIFF_LITTLEENDIAN_BYTE>>

Version(big) == IF big THEN TIFF_VERSION_BIG ELSE TIFF_VERSION_CLASSIC

\* a well-formed header in front of the directories dirs
Input(be, big, first, dirs, cut) ==
  [be |-> be, big |-> big, magic |-> Magic(be), version |-> Version(big),
   offsize |-> 8, pad |-> 0, first |-> first, dirs |-> dirs, cut |-> cut]

OneDir(es) == <<[entries |-> es, next |-> 0]>>

\* one directory of up to MaxEntries entries, in both byte orders and formats
ValueInputs ==
  { Input(be, big, 1, OneDir(es), 0) :
      be \in BOOLEAN, big \in BOOLEAN, es \in SeqsUpTo(ValueEntries, MaxEntries) }

\* entries of two tags, two of them of one tag and of different types
DupEntries ==
  { Entry(TIFFTAG_IMAGEWIDTH, TIFF_SHORT, Count(1), <<(<<1, 2>>)>>, "auto"),
    Entry(TIFFTAG_IMAGEWIDTH, TIFF_LONG, Count(2),
          <<(<<1, 2, 3, 4>>), (<<5, 6, 7, 8>>)>>, "auto"),
    Entry(TIFFTAG_IMAGELENGTH, TIFF_RATIONAL, Count(1),
          <<(<<0, 0, 0, 1>>), (<<0, 0, 0, 2>>)>>, "auto") }

\* one directory in which a tag can recur around an entry of another tag
DupInputs ==
  { Input(big, big, 1, OneDir(es), 0) :
      big \in BOOLEAN, es \in [1..(MaxEntries + 1) -> DupEntries] }

\* one directory of one entry, for every type
TypeInputs ==
  { Input(be, big, 1, OneDir(<<TypeEntry(t)>>), 0) :
      be \in BOOLEAN, big \in BOOLEAN, t \in AllTypes }

\* chains of up to MaxDirs directories with every choice of links
ChainInputs ==
  UNION { { Input(big, big, first,
                  [k \in 1..m |-> [entries |-> <<ChainEntry(k)>>, next |-> nx[k]]],
                  0) :
              first \in Links(m), nx \in [1..m -> Links(m)] } :
          big \in BOOLEAN, m \in 1..MaxDirs }

\* a chain of two directories, cut short at every length
CutBase(big) ==
  Input(~big, big, 1,
        <<[entries |-> <<ChainEntry(1)>>, next |-> 2],
          [entries |-> <<ChainEntry(2)>>, next |-> 0]>>, 0)

CutInputs ==
  UNION { { [CutBase(big) EXCEPT !.cut = c] :
              c \in 1..Len(FullBytes(CutBase(big))) } : big \in BOOLEAN }

\* headers: every magic, version, offset size and reserved field
HeaderInputs ==
  { [be |-> mg[1] = TIFF_BIGENDIAN_BYTE, big |-> v = TIFF_VERSION_BIG,
     magic |-> mg, version |-> v, offsize |-> os, pad |-> pd, first |-> first,
     dirs |-> OneDir(<<ChainEntry(1)>>), cut |-> 0] :
      mg \in { <<TIFF_BIGENDIAN_BYTE, TIFF_BIGENDIAN_BYTE>>,
               <<TIFF_LITTLEENDIAN_BYTE, TIFF_LITTLEENDIAN_BYTE>>,
               <<TIFF_BIGENDIAN_BYTE, TIFF_LITTLEENDIAN_BYTE>>,
               <<0, 0>> },
      v \in {41, TIFF_VERSION_CLASSIC, TIFF_VERSION_BIG, 44},
      os \in {8, 4}, pd \in {0, 1}, first \in {0, 1} }

\* tile / strip offsets: k parts, each at offset 2
OffsetsEntry(tag, k) ==
  Entry(tag, TIFF_LONG, Count(k), [i \in 1..k |-> Numeral(2, 4)], "auto")

LengthsEntry(tag, type, vals) == Entry(tag, type, Count(Len(vals)), vals, "auto")

\* byte counts: 4 bytes, 3 MiB, 5 MiB; as 64-bit values also 5 MiB + 1, 2^63
\* and 2^64 - 4
LengthValues(type) ==
  IF type = TIFF_LONG
  THEN { Numeral(4, 4), <<0, 48, 0, 0>>, <<0, 80, 0, 0>> }
  ELSE { Numeral(4, 8), <<0, 0, 0, 0, 0, 80, 0, 1>>, <<128, 0, 0, 0, 0, 0, 0, 0>>,
         <<255, 255, 255, 255, 255, 255, 255, 252>> }

\* tiled levels of 1..MaxTiles tiles with every choice of byte counts
TiledInputs ==
  UNION { { Input(big, big, 1,
                  OneDir(<<OffsetsEntry(TIFFTAG_TILEOFFSETS, k),
                           LengthsEntry(TIFFTAG_TILEBYTECOUNTS, type, vals)>>),
                  0) :
              vals \in [1..k -> LengthValues(type)] } :
          big \in BOOLEAN, type \in {TIFF_LONG, TIFF_LONG8}, k \in 1..MaxTiles }

\* other layouts: strips, tiles and strips, neither, counts that differ, no
\* byte counts, byte counts of a type that is no unsigned integer, parts that
\* lie outside the file
LayoutDirs ==
  { <<OffsetsEntry(TIFFTAG_STRIPOFFSETS, 2),
      LengthsEntry(TIFFTAG_STRIPBYTECOUNTS, TIFF_SHORT,
                   <<Numeral(4, 2), Numeral(3, 2)>>)>>,
    <<OffsetsEntry(TIFFTAG_STRIPOFFSETS, 1),
      LengthsEntry(TIFFTAG_STRIPBYTECOUNTS, TIFF_LONG, <<(<<0, 96, 0, 0>>)>>)>>,
    <<OffsetsEntry(TIFFTAG_STRIPOFFSETS, 2),
      LengthsEntry(TIFFTAG_STRIPBYTECOUNTS, TIFF_LONG,
                   <<Numeral(4, 4), Numeral(4, 4)>>),
      OffsetsEntry(TIFFTAG_TILEOFFSETS, 1),
      LengthsEntry(TIFFTAG_TILEBYTECOUNTS, TIFF_LONG, <<Numeral(5, 4)>>)>>,
    <<LengthsEntry(TIFFTAG_TILEBYTECOUNTS, TIFF_LONG, <<Numeral(4, 4)>>)>>,
    <<OffsetsEntry(TIFFTAG_TILEOFFSETS, 2),
      LengthsEntry(TIFFTAG_TILEBYTECOUNTS, TIFF_LONG, <<Numeral(4, 4)>>)>>,
    <<OffsetsEntry(TIFFTAG_TILEOFFSETS, 1)>>,
    <<OffsetsEntry(TIFFTAG_TILEOFFSETS, 1),
      LengthsEntry(TIFFTAG_TILEBYTECOUNTS, TIFF_FLOAT, <<Numeral(4, 4)>>)>>,
    <<OffsetsEntry(TIFFTAG_TILEOFFSETS, 1),
      LengthsEntry(TIFFTAG_TILEBYTECOUNTS, TIFF_LONG, <<Numeral(4000, 4)>>)>> }

\* an entry of bytes: a string with or without its NUL
BytesEntry(tag, type, bytes) ==
  Entry(tag, type, Count(Len(bytes)), [k \in 1..Len(bytes) |-> <<bytes[k]>>],
        "auto")

\* a level of one tile of 4 bytes
TileLayout ==
  <<OffsetsEntry(TIFFTAG_TILEOFFSETS, 1),
    LengthsEntry(TIFFTAG_TILEBYTECOUNTS, TIFF_LONG, <<Numeral(4, 4)>>)>>

\* a level of two tiles, of 4 and of 3 bytes
TwoTileLayout ==
  <<OffsetsEntry(TIFFTAG_TILEOFFSETS, 2),
    LengthsEntry(TIFFTAG_TILEBYTECOUNTS, TIFF_LONG,
                 <<Numeral(4, 4), Numeral(3, 4)>>)>>

ResUnitEntry(type, val) == Entry(TIFFTAG_RESOLUTIONUNIT, type, Count(1), <<val>>, "auto")

\* resolution units: 1, 2, 3 and 4 as shorts, 7 as a long, 1 as a signed
\* short and as an IFD, 0 as a byte, 2^32 + 1 as a 64-bit value, no value
ResUnitEntries ==
  { ResUnitEntry(TIFF_SHORT, Numeral(u, 2)) : u \in 1..4 }
  \cup { ResUnitEntry(TIFF_LONG, Numeral(7, 4)),
         ResUnitEntry(TIFF_SSHORT, Numeral(1, 2)),
         ResUnitEntry(TIFF_IFD, Numeral(1, 4)),
         ResUnitEntry(TIFF_BYTE, <<0>>),
         Entry(TIFFTAG_RESOLUTIONUNIT, TIFF_SHORT, Count(0), <<>>, "auto"),
         ResUnitEntry(TIFF_LONG8, <<0, 0, 0, 1, 0, 0, 0, 1>>) }

\* directories with properties: strings with their NUL, without it, with a
\* NUL inside, of type UNDEFINED, a tag of a type that is no string, floats
PropertyDirs ==
  { TileLayout \o <<ru>> : ru \in ResUnitEntries }
  \cup
  { TileLayout,
    TwoTileLayout
      \o <<BytesEntry(TIFFTAG_IMAGEDESCRIPTION, TIFF_ASCII, <<97, 98, 0>>),
                    BytesEntry(TIFFTAG_MAKE, TIFF_ASCII, <<99, 0>>),
                    ResUnitEntry(TIFF_SHORT, Numeral(1, 2))>>,
    TileLayout \o <<BytesEntry(TIFFTAG_IMAGEDESCRIPTION, TIFF_ASCII, <<97, 98>>),
                    ResUnitEntry(TIFF_SHORT, Numeral(3, 2))>>,
    TileLayout \o <<BytesEntry(TIFFTAG_DOCUMENTNAME, TIFF_UNDEFINED, <<100, 0>>),
                    BytesEntry(TIFFTAG_COPYRIGHT, TIFF_ASCII, <<101, 0, 120, 0>>)>>,
    TileLayout \o <<BytesEntry(TIFFTAG_MAKE, TIFF_BYTE, <<99, 0>>),
                    Entry(TIFFTAG_XRESOLUTION, TIFF_RATIONAL, Count(1),
                          <<Numeral(1, 4), Numeral(2, 4)>>, "auto")>>,
    TileLayout \o <<BytesEntry(TIFFTAG_ARTIST, TIFF_ASCII, <<122>>),
                    Entry(TIFFTAG_YPOSITION, TIFF_FLOAT, Count(1),
                          <<Elem(4, 1)>>, "auto")>>,
    <<BytesEntry(TIFFTAG_MAKE, TIFF_ASCII, <<99, 0>>)>> }

\* a file of one directory with properties, and a file whose first directory
\* holds the level and whose second holds the properties
PropertyInputs ==
  { Input(big, big, 1, OneDir(es), 0) : big \in BOOLEAN, es \in PropertyDirs }
  \cup
  { Input(big, big, 1,
          <<[entries |-> TileLayout
                         \o <<BytesEntry(TIFFTAG_MODEL, TIFF_ASCII, <<109, 0>>)>>,
             next |-> 2],
            [entries |-> <<BytesEntry(TIFFTAG_SOFTWARE, TIFF_ASCII, <<115, 0>>),
                           ResUnitEntry(TIFF_SHORT, Numeral(3, 2))>>,
             next |-> 0]>>, 0) : big \in BOOLEAN }

LayoutInputs ==
  { Input(big, big, 1, OneDir(es), 0) : big \in BOOLEAN, es \in LayoutDirs }

Inputs == ValueInputs \cup DupInputs \cup TypeInputs \cup ChainInputs
          \cup CutInputs \cup HeaderInputs \cup TiledInputs \cup LayoutInputs
          \cup PropertyInputs

NoCall == [fn |-> "none"]

Init ==
  /\ inp \in Inputs
  /\ file = FileBytes(inp)
  /\ pos = 0
  /\ pc = "start"
  /\ big_endian = FALSE
  /\ bigtiff = FALSE
  /\ diroff = Zero64
  /\ loop_detector = {}
  /\ directories = <<>>
  /\ off = Zero64
  /\ dircount = Zero64
  /\ n = 0
  /\ ht = <<>>
  /\ entrypos = 0
  /\ seeks = 0
  /\ decoded = <<>>
  /\ heap = [tl |-> 0, tables |-> 0, items |-> 0]
  /\ properties = EmptyTable
  /\ result = "none"
  /\ err = NoError
  /\ ok = TRUE
  /\ call = NoCall
  /\ hash = [enabled |-> TRUE, fed |-> <<>>]

-----------------------------------------------------------------------------
(* Calls on a constructed model *)

DirArgs == (0 - 1)..Len(directories)
TagArgs == UNION {DOMAIN directories[d] : d \in 1..Len(directories)}
           \cup {AbsentTag}
IndexArgs == (0 - 1)..MaxIndex

AccessorCall(fn, dir, tag, i, r) ==
  /\ pc = "done"
  /\ result = "tl"
  /\ call.fn = "none"
  /\ call' = [fn |-> fn, dir |-> dir, tag |-> tag, i |-> i, okBefore |-> ok,
              ret |-> r.ret]
  /\ ok' = r.ok
  /\ UNCHANGED <<inp, file, hash, properties>>
  /\ UNCHANGED createVars

GetUint(dir, tag, i) ==
  AccessorCall("get_uint", dir, tag, i, get_uint(dir, tag, i, ok))

GetSint(dir, tag, i) ==
  AccessorCall("get_sint", dir, tag, i, get_sint(dir, tag, i, ok))

GetFloat(dir, tag, i) ==
  AccessorCall("get_float", dir, tag, i, get_float(dir, tag, i, ok))

\* the caller's "bool ok = true" before a call
SetOk ==
  /\ pc = "done"
  /\ result = "tl"
  /\ call.fn = "none"
  /\ ~ok
  /\ ok' = TRUE
  /\ UNCHANGED <<inp, file, hash, call, properties>>
  /\ UNCHANGED createVars

\* hash_tiff_level on a fresh accumulator
HashTiffLevel(dir) ==
  /\ pc = "done"
  /\ result = "tl"
  /\ call.fn = "none"
  /\ hash = [enabled |-> TRUE, fed |-> <<>>]
  /\ LET r == hash_tiff_level(hash, dir)
     IN  /\ hash' = r.hash
         /\ call' = [fn |-> "hash_tiff_level", dir |-> dir, ret |-> r.ret,
                     err |-> r.err]
  /\ UNCHANGED <<inp, file, ok, properties>>
  /\ UNCHANGED createVars

\* _openslide_tifflike_init_properties_and_hash on a fresh accumulator and
\* an empty property table; osr is FALSE for a NULL osr.  A g_strdup that
\* reads memory it cannot read ends the process: no call returns.
InitPropertiesAndHash(osr, level, property_dir, over) ==
  /\ pc = "done"
  /\ result = "tl"
  /\ call.fn = "none"
  /\ hash = [enabled |-> TRUE, fed |-> <<>>]
  /\ properties = EmptyTable
  /\ LET r == hash_tiff_level(hash, level)
         s == store_and_hash_properties(property_dir, properties, r.hash, over)
         c == [fn |-> "init_properties_and_hash", osr |-> osr, level |-> level,
               dir |-> property_dir, ret |-> TRUE, err |-> NoError,
               prefix |-> ""]
     IN  IF ~osr
         THEN /\ call' = c
              /\ UNCHANGED <<hash, properties>>
         ELSE IF ~r.ret
         THEN /\ call' = [c EXCEPT !.ret = FALSE, !.err = r.err,
                                   !.prefix = "Cannot hash TIFF tiles: "]
              /\ hash' = r.hash
              /\ UNCHANGED properties
         ELSE /\ call' = IF s.fault THEN [c EXCEPT !.fn = "fault"] ELSE c
              /\ hash' = s.hash
              /\ properties' = s.props
  /\ UNCHANGED <<inp, file, ok>>
  /\ UNCHANGED createVars

\* the caller has taken the value a call returned
Return ==
  /\ call.fn \notin {"none", "fault"}
  /\ call' = NoCall
  /\ UNCHANGED <<inp, file, hash, ok, properties>>
  /\ UNCHANGED createVars

Next ==
  \/ CreateHeader
  \/ \E env \in BOOLEAN : ReadDirectoryBegin(env)
  \/ \E allocOk \in BOOLEAN, env \in BOOLEAN : ReadDirectoryEntry(allocOk, env)
  \/ ReadDirectoryEnd
  \/ CreateFinish
  \/ \E dir \in DirArgs, tag \in TagArgs, i \in IndexArgs : GetUint(dir, tag, i)
  \/ \E dir \in DirArgs, tag \in TagArgs, i \in IndexArgs : GetSint(dir, tag, i)
  \/ \E dir \in DirArgs, tag \in TagArgs, i \in IndexArgs : GetFloat(dir, tag, i)
  \/ SetOk
  \/ \E dir \in 0..Len(directories) : HashTiffLevel(dir)
  \/ \E osr \in BOOLEAN, level \in 0..Len(directories), property_dir \in DirArgs :
       \E over \in [OverReads(property_dir) -> OverReadOutcomes] :
         InitPropertiesAndHash(osr, level, property_dir, over)
  \/ Return

Spec == Init /\ [][Next]_vars

\* the steps of one call of _openslide_tifflike_create
CreateNext ==
  \/ CreateHeader
  \/ \E env \in BOOLEAN : ReadDirectoryBegin(env)
  \/ \E allocOk \in BOOLEAN, env \in BOOLEAN : ReadDirectoryEntry(allocOk, env)
  \/ ReadDirectoryEnd
  \/ CreateFinish

\* one call of _openslide_tifflike_create, run to its end: the call is
\* synchronous, every step is the next statement of a running function, and
\* a read or seek on the file returns
CreateSpec == Init /\ [][CreateNext]_vars /\ WF_vars(CreateNext)

-----------------------------------------------------------------------------
(* Properties *)

Range(f) == {f[k] : k \in DOMAIN f}

ValidMagics == {Magic(TRUE), Magic(FALSE)}

\* the header of the input file is one the format does not allow: judged on
\* the description the file was written from and on the length of the file
HeaderRejected(d) ==
  \/ d.magic \notin ValidMagics
  \/ d.version \notin {TIFF_VERSION_CLASSIC, TIFF_VERSION_BIG}
  \/ d.version = TIFF_VERSION_BIG /\ (d.offsize # 8 \/ d.pad # 0)
  \/ Len(file) < (IF d.version = TIFF_VERSION_BIG THEN 16 ELSE 8)

\* C1: construction is all-or-nothing.  A call that returns NULL has set an
\* error and has released the struct and every table, the one in progress and
\* those of the directories parsed before; a call that returns a model returns
\* every directory it began to decode, complete, with no error set; nothing is
\* returned before the call is over.
C1_AllOrNothing ==
  /\ result = "NULL" =>
       /\ pc = "done"
       /\ err # NoError
       /\ directories = <<>>
       /\ ht = <<>>
       /\ heap.tl = 0
       /\ heap.tables = 0
          \* all items of all tables are freed; what stays allocated is the
          \* struct of the entry being decoded at line 297 or 305, which was
          \* not yet inserted into any table
       /\ heap.items = IF err.msg \in {"Unknown type encountered",
                                       "Cannot read value"}
                       THEN 1 ELSE 0
  /\ result = "tl" =>
       /\ pc = "done"
       /\ err = NoError
       /\ ht = <<>>
       /\ IsZero(diroff)
       /\ Len(directories) = Len(decoded)
       /\ heap.tl = 1
       /\ heap.tables = Len(directories)
       /\ heap.items = ItemsOf(directories)
  /\ result = "none" => pc # "done"

\* a failure after a first directory was parsed and a second was begun
C1_Witness ==
  /\ result = "NULL"
  /\ Len(decoded) >= 2
  /\ heap.tables = 0

\* C2: when the offset of the directory to read next is one at which a
\* directory was decoded before in this walk, the call fails with BadData
\* "Loop detected" and decodes nothing; and no offset is decoded twice.
C2_CycleRejection ==
  [][ /\ (pc = "loop" /\ ~IsZero(diroff) /\ diroff \in Range(decoded))
           => /\ result' = "NULL"
              /\ err' = BadData("Loop detected")
              /\ decoded' = decoded
      /\ decoded' # decoded
           => /\ Len(decoded') = Len(decoded) + 1
              /\ decoded'[Len(decoded')] \notin Range(decoded) ]_vars

\* a chain of two directories whose second points back
C2_Witness ==
  /\ err = BadData("Loop detected")
  /\ Len(decoded) = 2

\* C3: the call ends with FormatNotSupported exactly when the header is
\* rejected (magic, version, the BigTIFF offset size and reserved field, a
\* header too short); once the header is accepted no error is
\* FormatNotSupported.
C3_FormatNotSupported ==
  /\ pc = "done" => (err.code = "FORMAT_NOT_SUPPORTED" <=> HeaderRejected(inp))
  /\ pc \notin {"start", "done"} => (~HeaderRejected(inp) /\ err = NoError)

\* a BigTIFF header whose reserved field is not 0
C3_Witness ==
  /\ pc = "done"
  /\ err.code = "FORMAT_NOT_SUPPORTED"
  /\ inp.magic \in ValidMagics
  /\ inp.version = TIFF_VERSION_BIG
  /\ inp.offsize = 8
  /\ inp.pad = 1
  /\ Len(file) >= 16

\* C4: a valid header whose first directory offset is 0 decodes no directory
\* and fails with BadData "TIFF contains no directories"; "Bad offset" is set
\* only for an offset that is negative as an int64_t; a model that was
\* returned has at least one directory.
C4_EmptyChain ==
  /\ (pc = "done" /\ ~HeaderRejected(inp) /\ inp.first = 0)
       => /\ result = "NULL"
          /\ err = BadData("TIFF contains no directories")
          /\ decoded = <<>>
  /\ err.msg = "TIFF contains no directories" => inp.first = 0
  /\ err.msg = "Bad offset" => (err.code = "BAD_DATA" /\ IsNeg(off))
  /\ result = "tl" => get_directory_count >= 1

\* the empty chain was rejected
C4_Witness ==
  /\ pc = "done"
  /\ ~HeaderRejected(inp)
  /\ inp.first = 0
  /\ err.msg = "TIFF contains no directories"

-----------------------------------------------------------------------------
(* What an entry of the file says, read from the bytes of the file at the  *)
(* position p at which the entry begins                                    *)

FromFile(bytes) == IF big_endian THEN bytes ELSE Reverse(bytes)

EntryTag(p) == Val16(FromFile(SubSeq(file, p + 1, p + 2)))
EntryType(p) == Val16(FromFile(SubSeq(file, p + 3, p + 4)))
EntryCount(p) == U64(FromFile(SubSeq(file, p + 5, p + 4 + FieldLen(bigtiff))))
EntryField(p) ==
  SubSeq(file, p + 5 + FieldLen(bigtiff), p + 4 + 2 * FieldLen(bigtiff))

IsRational(type) == type \in {TIFF_RATIONAL, TIFF_SRATIONAL}

\* elements per logical element
Slots(type) == IF IsRational(type) THEN 2 ELSE 1

\* bytes of `w` bytes per element, each element byte-swapped
Swapped(bytes, w) ==
  [i \in 1..(Len(bytes) \div w) |-> FromFile(SubSeq(bytes, (i - 1) * w + 1, i * w))]

\* an iteration of the loop over the entries has stored an entry
EntryStored == pc = "entries" /\ pc' = "entries" /\ n' = n + 1

\* C5: for an entry that was stored, if width x element count (the count
\* doubled for the rationals) is at most the width of the value field, the
\* value is the first width x count bytes of the field, byte-swapped per
\* element, and no seek was made; otherwise it is the width x count bytes at
\* the offset the field holds, byte-swapped per element.
C5_InlineRoundTrip ==
  [][ EntryStored =>
        LET type == EntryType(pos)
            count == EntryCount(pos)
            w == value_size(type)
            fits == Fits(count)
            len == w * Val(count) * Slots(type)
            field == EntryField(pos)
            offset == U64(FromFile(field))
            stored == ht'[1][EntryTag(pos)]
        IN  IF fits /\ len <= FieldLen(bigtiff)
            THEN /\ stored.value = Swapped(SubSeq(field, 1, len), w)
                 /\ seeks' = seeks
            ELSE /\ fits
                 /\ Fits(offset)
                 /\ Val(offset) + len <= Len(file)
                 /\ stored.value
                      = Swapped(SubSeq(file, Val(offset) + 1, Val(offset) + len), w)
    ]_vars

\* C6: an entry was stored, so read_tiff_value returned a value: the file
\* position is the byte that follows the entry, also when the value was read
\* from elsewhere in the file.
C6_PositionRestored ==
  (pc = "entries" /\ n > 0) => pos = entrypos + EntryLen(bigtiff)

\* the entry stored last had its value outside the entry
C6_Witness ==
  /\ pc = "entries"
  /\ n = 1
  /\ seeks = 2

\* C7: every entry of a model has a count that is strictly positive and a
\* value of exactly count elements (twice the count for the rationals) of the
\* width of its type; get_value_count is 0 only for an absent tag and is
\* never negative.
C7_TagEntryInvariant ==
  result = "tl" =>
    /\ \A d \in 1..Len(directories) : \A t \in DOMAIN directories[d] :
         LET item == directories[d][t]
         IN  /\ ~IsNeg(item.count)
             /\ ~IsZero(item.count)
             /\ Fits(item.count)
             /\ Len(item.value) = Slots(item.type) * Val(item.count)
             /\ \A k \in 1..Len(item.value) :
                  Len(item.value[k]) = value_size(item.type)
    /\ \A dir \in DirArgs : \A t \in TagArgs :
         /\ ~IsNeg(get_value_count(dir, t))
         /\ IsZero(get_value_count(dir, t)) <=> get_item(dir, t) = NoItem

\* the directory of the input file that lies at offset o
InputDirAt(o) ==
  CHOOSE k \in 1..Len(inp.dirs) : Numeral(DirOff(inp.dirs, k, inp.big), 8) = o

\* the count an entry's count field holds
WrittenCount(e) == IF inp.big THEN e.count ELSE U64(SubSeq(e.count, 5, 8))

\* the last entry of es with the tag t
LastWith(es, t) ==
  es[CHOOSE i \in 1..Len(es) :
       es[i].tag = t /\ \A j \in (i + 1)..Len(es) : es[j].tag # t]

\* C8: in a model every directory holds exactly the tags of the entries of
\* its directory in the file, and for each tag the count, the type and the
\* value are those of the last entry with that tag.
C8_LastWriteWins ==
  result = "tl" =>
    \A d \in 0..(Len(directories) - 1) :
      LET es == inp.dirs[InputDirAt(decoded[d + 1])].entries
      IN  /\ DOMAIN directories[d + 1] = {es[i].tag : i \in 1..Len(es)}
          /\ \A t \in DOMAIN directories[d + 1] :
               LET e == LastWith(es, t)
               IN  /\ get_value_count(d, t) = WrittenCount(e)
                   /\ get_item(d, t).type = e.type
                   /\ get_item(d, t).value = e.elems

\* a directory with two entries of one tag and of different types around an
\* entry of another tag
C8_Witness ==
  /\ result = "tl"
  /\ Len(inp.dirs) = 1
  /\ LET es == inp.dirs[1].entries
     IN  /\ Len(es) >= 3
         /\ es[1].tag = es[Len(es)].tag
         /\ es[1].type # es[Len(es)].type
         /\ es[2].tag # es[1].tag
         /\ get_item(0, es[1].tag).type = es[Len(es)].type
         /\ get_item(0, es[2].tag).value = es[2].elems

AccessorNames == {"get_uint", "get_sint", "get_float"}

AccessorTypes(fn) ==
  CASE fn = "get_uint" ->
         {TIFF_BYTE, TIFF_SHORT, TIFF_LONG, TIFF_LONG8, TIFF_IFD, TIFF_IFD8}
    [] fn = "get_sint" -> {TIFF_SBYTE, TIFF_SSHORT, TIFF_SLONG, TIFF_SLONG8}
    [] fn = "get_float" ->
         {TIFF_FLOAT, TIFF_DOUBLE, TIFF_RATIONAL, TIFF_SRATIONAL}

\* the conditions under which an accessor is to fail
AccessorFails(fn, dir, tag, i) ==
  \/ dir < 0
  \/ dir >= get_directory_count
  \/ tag \notin DOMAIN directories[dir + 1]
  \/ i < 0
  \/ ~GreaterS(directories[dir + 1][tag].count, Numeral(i, 8))
  \/ directories[dir + 1][tag].type \notin AccessorTypes(fn)

\* C9: an accessor called with the flag true leaves it false exactly when
\* the directory index is out of range, the tag is absent, the element index
\* is < 0 or >= the count, or the type is not one of the accessor's; it then
\* returns its sentinel (0, 0, NAN).  A rational with denominator 0 is no
\* failure.
C9_AccessorFailure ==
  call.fn \in AccessorNames =>
    LET fails == AccessorFails(call.fn, call.dir, call.tag, call.i)
    IN  /\ call.okBefore => (~ok <=> fails)
        /\ fails => call.ret = (IF call.fn = "get_float" THEN NaN ELSE Zero64)
        /\ (~fails /\ call.fn = "get_float") => call.ret.kind # "nan"

\* get_sint on a Float entry
C9_Witness ==
  /\ call.fn = "get_sint"
  /\ call.okBefore
  /\ ~ok
  /\ call.i = 0
  /\ get_item(call.dir, call.tag).type = TIFF_FLOAT

\* the layout hash_tiff_level chooses for directory dir: tiles before strips
ChosenTags(dir) ==
  IF TIFFTAG_TILEOFFSETS \in DOMAIN directories[dir + 1]
  THEN <<TIFFTAG_TILEOFFSETS, TIFFTAG_TILEBYTECOUNTS>>
  ELSE <<TIFFTAG_STRIPOFFSETS, TIFFTAG_STRIPBYTECOUNTS>>

UnsignedTypes == AccessorTypes("get_uint")

\* directory dir has offsets and byte counts of unsigned integers, as many of
\* the one as of the other
ValidLayout(dir) ==
  /\ dir >= 0 /\ dir < Len(directories)
  /\ LET t == directories[dir + 1]
         tags == ChosenTags(dir)
     IN  /\ tags[1] \in DOMAIN t
         /\ tags[2] \in DOMAIN t
         /\ t[tags[1]].count = t[tags[2]].count
         /\ t[tags[1]].type \in UnsignedTypes
         /\ t[tags[2]].type \in UnsignedTypes

RECURSIVE SumVal(_)
SumVal(vals) ==
  IF Len(vals) = 0 THEN 0 ELSE Val(U64(Head(vals))) + SumVal(Tail(vals))

\* the sum of unsigned values, as a number, is more than 5 MiB
SumExceedsFiveMiB(vals) ==
  \/ \E k \in 1..Len(vals) : LessU(FiveMiB, U64(vals[k]))
  \/ SumVal(vals) > 5 * 1048576

\* C10: hash_tiff_level on a directory with a valid layout whose byte counts
\* sum to more than 5 MiB disables the accumulator, returns success and
\* feeds nothing; when they sum to at most 5 MiB it does not disable it.
C10_HashCeiling ==
  (call.fn = "hash_tiff_level" /\ ValidLayout(call.dir)) =>
    LET vals == directories[call.dir + 1][ChosenTags(call.dir)[2]].value
    IN  IF SumExceedsFiveMiB(vals)
        THEN ~hash.enabled /\ call.ret /\ hash.fed = <<>>
        ELSE hash.enabled

\* the parts fed for the offsets and lengths of directory dir under tags
FedParts(dir, tags) ==
  LET t == directories[dir + 1]
  IN  [i \in 1..Len(t[tags[1]].value) |->
         <<"part", U64(t[tags[1]].value[i]), U64(t[tags[2]].value[i])>>]

FreshHash == [enabled |-> TRUE, fed |-> <<>>]

\* C11: hash_tiff_level on a directory takes the tile tags whenever tile
\* offsets are present, the strip tags only when tile offsets are absent and
\* strip offsets present, fails with BadData "neither tiled nor stripped"
\* when both are absent and with BadData "Invalid tile/strip counts" when the
\* chosen offsets and lengths differ in count (an absent lengths tag counts
\* 0); in these failures nothing is fed and the accumulator is not disabled.
\* With equal counts neither error is set and what is fed is read under the
\* chosen tags.
C11_LayoutDetection ==
  (call.fn = "hash_tiff_level" /\ call.dir < Len(directories)) =>
    LET t == directories[call.dir + 1]
        tags == ChosenTags(call.dir)
        lc == IF tags[2] \in DOMAIN t THEN t[tags[2]].count ELSE Zero64
    IN  IF TIFFTAG_TILEOFFSETS \notin DOMAIN t
           /\ TIFFTAG_STRIPOFFSETS \notin DOMAIN t
        THEN /\ ~call.ret
             /\ call.err = BadData("neither tiled nor stripped")
             /\ hash = FreshHash
        ELSE IF t[tags[1]].count # lc
        THEN /\ ~call.ret
             /\ call.err = BadData("Invalid tile/strip counts")
             /\ hash = FreshHash
        ELSE /\ call.err.msg \notin {"neither tiled nor stripped",
                                     "Invalid tile/strip counts"}
             /\ \A k \in 1..Len(hash.fed) :
                  hash.fed[k] = FedParts(call.dir, tags)[k]
             /\ (call.ret /\ hash.enabled)
                  => hash.fed = FedParts(call.dir, tags)

\* a directory with tile offsets and strip offsets was hashed by its tiles
C11_Witness ==
  /\ call.fn = "hash_tiff_level"
  /\ call.dir < Len(directories)
  /\ TIFFTAG_TILEOFFSETS \in DOMAIN directories[call.dir + 1]
  /\ TIFFTAG_STRIPOFFSETS \in DOMAIN directories[call.dir + 1]
  /\ call.ret
  /\ Len(hash.fed) = 1

\* a call of _openslide_tifflike_init_properties_and_hash with an osr has
\* returned
InitReturned ==
  /\ call.fn = "init_properties_and_hash"
  /\ call.osr

\* the hashed string properties in the order of the contract
HashedNames ==
  <<"tiff.ImageDescription", "tiff.Make", "tiff.Model", "tiff.Software",
    "tiff.DateTime", "tiff.Artist", "tiff.HostComputer", "tiff.Copyright",
    "tiff.DocumentName">>

HashedTags ==
  <<TIFFTAG_IMAGEDESCRIPTION, TIFFTAG_MAKE, TIFFTAG_MODEL, TIFFTAG_SOFTWARE,
    TIFFTAG_DATETIME, TIFFTAG_ARTIST, TIFFTAG_HOSTCOMPUTER, TIFFTAG_COPYRIGHT,
    TIFFTAG_DOCUMENTNAME>>

\* directory dir holds tag as a string
HasString(dir, tag) ==
  /\ dir >= 0 /\ dir < Len(directories)
  /\ tag \in DOMAIN directories[dir + 1]
  /\ directories[dir + 1][tag].type \in {TIFF_ASCII, TIFF_UNDEFINED}

\* the bytes of the string tag of directory dir, one byte an element
StringBytes(dir, tag) ==
  LET v == directories[dir + 1][tag].value
  IN  [k \in 1..Len(v) |-> v[k][1]]

\* v can be the C string at the bytes: the bytes before the first NUL, or,
\* without a NUL, the bytes and whatever follows them in memory
IsStringOf(v, bytes) ==
  IF \E k \in 1..Len(bytes) : bytes[k] = 0
  THEN LET z == CHOOSE k \in 1..Len(bytes) :
                  bytes[k] = 0 /\ \A j \in 1..(k - 1) : bytes[j] # 0
       IN  v = SubSeq(bytes, 1, z - 1)
  ELSE /\ Len(v) >= Len(bytes)
       /\ SubSeq(v, 1, Len(bytes)) = bytes
       /\ \A j \in (Len(bytes) + 1)..Len(v) : v[j] # 0

\* fed is the 2m items of the first m hashed string properties of directory
\* dir: each name, then its value or NULL
IsStringFeed(fed, dir, m) ==
  /\ Len(fed) = 2 * m
  /\ \A k \in 1..m :
       /\ fed[2 * k - 1] = <<"name", HashedNames[k]>>
       /\ IF HasString(dir, HashedTags[k])
          THEN /\ fed[2 * k][1] = "value"
               /\ IsStringOf(fed[2 * k][2], StringBytes(dir, HashedTags[k]))
          ELSE fed[2 * k] = <<"null">>

\* the parts of the level that the accumulator is to receive: none once the
\* accumulator is disabled
LevelParts(level) ==
  IF hash.enabled THEN FedParts(level, ChosenTags(level)) ELSE <<>>

\* C12: when _openslide_tifflike_init_properties_and_hash returns true the
\* accumulator has received the byte ranges of the level in ascending index
\* order and after them, for ImageDescription, Make, Model, Software,
\* DateTime, Artist, HostComputer, Copyright and DocumentName in this order,
\* the name and then the value, the name also when the tag is absent;
\* nothing of the comment, the resolutions, the positions or the resolution
\* unit is fed.  When the level cannot be hashed the call returns false, no
\* string is fed and no property is stored.  A call that a string without
\* NUL brings down has fed a part of this sequence that ends with a name.
C12_HashFeedOrder ==
  /\ (InitReturned /\ call.ret) =>
       LET parts == LevelParts(call.level)
       IN  /\ Len(hash.fed) = Len(parts) + 2 * Len(HashedNames)
           /\ SubSeq(hash.fed, 1, Len(parts)) = parts
           /\ IsStringFeed(SubSeq(hash.fed, Len(parts) + 1, Len(hash.fed)),
                           call.dir, Len(HashedNames))
  /\ (InitReturned /\ ~call.ret) =>
       /\ properties = EmptyTable
       /\ \A k \in 1..Len(hash.fed) : hash.fed[k][1] = "part"
       /\ call.prefix = "Cannot hash TIFF tiles: "
  /\ call.fn = "fault" =>
       LET parts == LevelParts(call.level)
       IN  /\ SubSeq(hash.fed, 1, Len(parts)) = parts
           /\ \/ Len(hash.fed) = Len(parts)
              \/ \E m \in 0..(Len(HashedNames) - 1) :
                   /\ Len(hash.fed) = Len(parts) + 2 * m + 1
                   /\ IsStringFeed(SubSeq(hash.fed, Len(parts) + 1,
                                          Len(parts) + 2 * m), call.dir, m)
                   /\ hash.fed[Len(hash.fed)] = <<"name", HashedNames[m + 1]>>

\* a level of two parts of different lengths hashed, with a string present
\* and a string absent
C12_Witness ==
  /\ InitReturned
  /\ call.ret
  /\ hash.enabled
  /\ Len(hash.fed) = 2 + 2 * Len(HashedNames)
  /\ hash.fed[1] # hash.fed[2]
  /\ HasString(call.dir, TIFFTAG_MAKE)
  /\ ~HasString(call.dir, TIFFTAG_MODEL)

\* the level cannot be hashed while the property directory holds a string
C12_FailureWitness ==
  /\ InitReturned
  /\ ~call.ret
  /\ HasString(call.dir, TIFFTAG_MAKE)

\* the name of the resolution unit of directory dir
ResolutionUnitOf(dir) ==
  IF AccessorFails("get_uint", dir, TIFFTAG_RESOLUTIONUNIT, 0) THEN "inch"
  ELSE LET u == U64(directories[dir + 1][TIFFTAG_RESOLUTIONUNIT].value[1])
       IN  CASE u = Numeral(1, 8) -> "none"
             [] u = Numeral(2, 8) -> "inch"
             [] u = Numeral(3, 8) -> "centimeter"
             [] OTHER -> "unknown"

\* C13: after store_and_hash_properties on a directory the property
\* "tiff.ResolutionUnit" is present; it is "none" when the first element of
\* the tag reads as 1, "inch" when it reads as 2 or the tag is absent, of no
\* unsigned integer type or without a first element, "centimeter" when it
\* reads as 3 and "unknown" for every other value.
C13_ResolutionUnit ==
  (InitReturned /\ call.ret) =>
    /\ "tiff.ResolutionUnit" \in DOMAIN properties
    /\ properties["tiff.ResolutionUnit"] = <<"string", ResolutionUnitOf(call.dir)>>

\* the resolution unit is a signed short 1: the property is "inch"
C13_Witness ==
  /\ InitReturned
  /\ call.ret
  /\ call.dir >= 0 /\ call.dir < Len(directories)
  /\ TIFFTAG_RESOLUTIONUNIT \in DOMAIN directories[call.dir + 1]
  /\ directories[call.dir + 1][TIFFTAG_RESOLUTIONUNIT].type = TIFF_SSHORT
  /\ properties["tiff.ResolutionUnit"] = <<"string", "inch">>


\* the directories of the input file in the order of the chain: from link,
\* at most fuel of them
RECURSIVE ChainFrom(_, _)
ChainFrom(link, fuel) ==
  IF fuel = 0 \/ link \notin 1..Len(inp.dirs) THEN <<>>
  ELSE <<link>> \o ChainFrom(inp.dirs[link].next, fuel - 1)

\* C14: a model holds one directory per directory of the chain, in the order
\* of the chain: index 0 is the directory at the header's first offset, index
\* k + 1 the one at the next offset of directory k, and the next offset of
\* the last is 0; the directory count is the length of the chain, and with a
\* directory index outside 0..count-1 the accessors report absence.
C14_DirectoryOrder ==
  result = "tl" =>
    LET chain == ChainFrom(inp.first, Len(inp.dirs) + 1)
    IN  /\ get_directory_count = Len(chain)
        /\ \A k \in 1..Len(chain) :
             LET es == inp.dirs[chain[k]].entries
             IN  /\ decoded[k] = Numeral(DirOff(inp.dirs, chain[k], inp.big), 8)
                 /\ DOMAIN directories[k] = {es[i].tag : i \in 1..Len(es)}
                 /\ \A t \in DOMAIN directories[k] :
                      get_item(k - 1, t).value = LastWith(es, t).elems
        /\ Len(chain) >= 1
        /\ inp.dirs[chain[Len(chain)]].next = 0
        /\ \A dir \in {0 - 1, get_directory_count} : \A t \in TagArgs :
             /\ get_item(dir, t) = NoItem
             /\ IsZero(get_value_count(dir, t))
             /\ ~get_uint(dir, t, 0, TRUE).ok
             /\ ~get_sint(dir, t, 0, TRUE).ok
             /\ ~get_float(dir, t, 0, TRUE).ok

\* a chain that visits the second directory of the file before the first
C14_Witness ==
  /\ result = "tl"
  /\ inp.first = 2
  /\ get_directory_count = 2
  /\ get_item(0, TIFFTAG_IMAGEWIDTH).value = inp.dirs[2].entries[1].elems
  /\ get_item(1, TIFFTAG_IMAGEWIDTH).value = inp.dirs[1].entries[1].elems
  /\ inp.dirs[1].entries[1].elems # inp.dirs[2].entries[1].elems

\* what a step of the walk does to the visited offsets
WalkBounded ==
  /\ (pc = "loop" /\ pc' = "entries") =>
       ( /\ ~IsNeg(off') /\ ~IsZero(off')
         /\ off' \notin loop_detector
         /\ loop_detector' = loop_detector \cup {off'}
         /\ Fits(off')
         /\ Val(off') + DirCountLen(bigtiff) <= Len(file) )
  /\ (pc = "entries" /\ pc' = "loop") => (pos' <= Len(file))
  /\ Cardinality(loop_detector') <= Len(file)
  /\ Len(decoded') <= Len(file)

\* a bound on the steps the call has left: per offset not yet visited one
\* directory, and within a directory the bytes between the position and the
\* end of the file
Variant ==
  LET L == Len(file)
      A == L + 2
  IN  CASE pc = "start"   -> A * (L + 2)
        [] pc = "loop"    -> A * (L + 1 - Cardinality(loop_detector))
        [] pc = "entries" -> A * (L + 1 - Cardinality(loop_detector))
                               + 1 + L - pos
        [] pc = "done"    -> 0

\* the guards of the steps of the call: the header, the beginning of a
\* directory, an entry, the end of a directory, the end of the chain
CanStep ==
  \/ pc = "start"
  \/ pc = "loop" /\ ~IsZero(diroff)
  \/ pc = "entries" /\ MoreEntries
  \/ pc = "entries" /\ ~MoreEntries
  \/ pc = "loop" /\ IsZero(diroff)

\* C15: _openslide_tifflike_create returns for every input file.  Every
\* step lowers a bound that is a natural number, and a call that has not
\* returned has a step to take: every directory whose decoding begins lies
\* at a positive offset that was not visited before and that joins the
\* visited set, with its count field inside the file; a directory that was
\* decoded has its next offset field inside the file; so the visited offsets
\* are no more than the bytes of the file.
C15_Termination ==
  [][ /\ WalkBounded
      /\ Variant' < Variant
      /\ Variant' >= 0
      /\ pc' # "done" => CanStep' ]_vars

\* the call returned from a directory whose next offset is its own
C15_Witness ==
  /\ pc = "done"
  /\ result = "NULL"
  /\ err.msg = "Loop detected"
  /\ Len(decoded) = 1
  /\ Len(inp.dirs) = 1

\* a step is the call of an accessor
AccessorStep == call.fn = "none" /\ call'.fn \in AccessorNames

\* a step is a call of hash_tiff_level on a directory whose offsets and
\* lengths have one count and whose lengths are no unsigned integers, so
\* that every lookup of a length fails
LengthLookupFails ==
  /\ call.fn = "none"
  /\ call'.fn = "hash_tiff_level"
  /\ call'.dir < Len(directories)
  /\ LET t == directories[call'.dir + 1]
         tags == ChosenTags(call'.dir)
     IN  /\ tags[1] \in DOMAIN t
         /\ tags[2] \in DOMAIN t
         /\ t[tags[1]].count = t[tags[2]].count
         /\ t[tags[1]].type \in UnsignedTypes
         /\ t[tags[2]].type \notin UnsignedTypes

\* C16: get_uint, get_sint and get_float never set the caller's flag to
\* true: a call that succeeds leaves the flag as it was, so a flag that is
\* false stays false over successful calls; no accessor changes the model or
\* the file position.  In hash_tiff_level a lookup of a length that failed
\* in the loop that sums the lengths makes the loop over the parts fail with
\* BadData, with nothing fed.
C16_FlagWriteOnFailure ==
  [][ /\ AccessorStep =>
           ( /\ ok' => ok
             /\ ~AccessorFails(call'.fn, call'.dir, call'.tag, call'.i)
                  => (ok' = ok)
             /\ UNCHANGED <<directories, pos, file, heap, result, err, hash>> )
      /\ LengthLookupFails =>
           ( /\ ~call'.ret
             /\ call'.err = BadData("Invalid tile/strip offset/length")
             /\ hash' = FreshHash ) ]_vars

\* a call of get_sint that succeeded with the flag false before and after
C16_Witness ==
  /\ call.fn = "get_sint"
  /\ ~call.okBefore
  /\ ~AccessorFails(call.fn, call.dir, call.tag, call.i)
  /\ ~ok
  /\ call.ret # Zero64

====
